---- MODULE Spec2Model ----
(***************************************************************************)
(* Model of the messaging application (chats/views.py, chats/serializers.py)*)
(* and of the SQLite decorator utilities (python-decorators-0x01).          *)
(*                                                                         *)
(* chats/models.py is not part of the sources at hand: the operations it    *)
(* provides (Conversation.get_or_create_conversation, soft deletion) are    *)
(* modelled from the specification of the repository.                       *)
(***************************************************************************)
EXTENDS Integers, Sequences, FiniteSets, TLC

VARIABLES
    deleted,    \* User rows whose deleted_at is set
    convs,      \* Conversation table: convs[i] is the row with conversation_id i
    req,        \* per request slot: position and response of a
                \* ConversationViewSet.create call
    msgs,       \* Message table: msgs[i] is the row with message_id i
    mresp,      \* request and outcome of the last MessageViewSet create
    view,       \* the last message listing that was rendered
    rows,       \* User rows: first_name, last_name and the save that wrote them
    cache,      \* django.core.cache: the entry of key user_full_name_<user_id>
    upd,        \* position of a UserSerializer.update call
    rd,         \* position and result of a get_full_name / get_sender_name call
    rt,         \* a call of a function wrapped by retry_on_failure
    tx          \* a call of a function wrapped by with_db_connection and
                \* transactional, and the email the database holds

chat == <<deleted, convs, req, msgs, mresp, view>>
names == <<rows, cache, upd, rd, rt, tx>>
vars == <<deleted, convs, req, msgs, mresp, view, rows, cache, upd, rd, rt,
          tx>>

----------------------------------------------------------------------------
(* Bounds *)

MaxLen == 2         \* longest "participants" list of a request
MaxConvs == 2       \* rows the Conversation table may hold
MaxMsgs == 2        \* rows the Message table may hold
MaxBody == 2        \* longest message body, in tokens
MaxUpdates == 2     \* saves of a user row
MaxRetries == 3     \* largest retries argument of retry_on_failure

----------------------------------------------------------------------------
(* Users and emails *)

Users == {"ua", "ub", "uc"}

EmailOf == [u \in Users |->
              CASE u = "ua" -> "a@x.com"
                [] u = "ub" -> "b@x.com"
                [] u = "uc" -> "c@x.com"]

\* an email no User row carries
UnknownEmail == "ghost@x.com"

Emails == {EmailOf[u] : u \in Users} \cup {UnknownEmail}

Slots == {"r1", "r2"}

Range(s) == {s[i] : i \in DOMAIN s}

SeqsUpTo(S, n) == UNION {[1..k -> S] : k \in 0..n}

\* the lists request.data['participants'] may hold
ParticipantLists == SeqsUpTo(Emails, MaxLen)

\* the lists of the requests that race with each other
ShortLists == {<<>>} \cup {<<e>> : e \in Emails}

\* every order in which a queryset without order_by may yield the rows S
Orderings(S) == {q \in [1..Cardinality(S) -> S] : Range(q) = S}

----------------------------------------------------------------------------
(* ConversationViewSet.create, lines 54-67 *)

\* all_emails = set(participant_emails); all_emails.add(request.user.email)
AllEmails(participant_emails, user) ==
    Range(participant_emails) \cup {EmailOf[user]}

\* mutant: soft-deleted users are not filtered out
ActiveByEmailsNoFilter(all_emails, del) ==
    {u \in Users : EmailOf[u] \in all_emails}

\* User.objects.filter(email__in=all_emails, deleted_at__isnull=True)
ActiveByEmails(all_emails, del) ==
    {u \in Users : EmailOf[u] \in all_emails /\ u \notin del}

\* mutant: the emails found are reported instead of the missing ones
MissingEmailsFound(all_emails, participants) ==
    {EmailOf[p] : p \in participants}

\* missing_emails = all_emails - {p.email for p in participants}
MissingEmails(all_emails, participants) ==
    all_emails \ {EmailOf[p] : p \in participants}

----------------------------------------------------------------------------
(* Conversation.get_or_create_conversation (models.py, from the spec) *)

\* canonical participant set: sorted and deduplicated identifiers
Canonical(ids) == Range(ids)

\* the lowest identifier of a non-empty set of rows
First(S) == CHOOSE i \in S : \A j \in S : i <= j

NewConversation(P) == [participants |-> P, deleted |-> FALSE]

\* getOrCreate: canonicalize, validate (at least 2 distinct participants),
\* search a non-deleted conversation over the same set, else create one.
\* One call is one atomic step of the store (uniqueness on the canonical set).
GetOrCreate(ids, table) ==
    LET P == Canonical(ids)
        found == {i \in DOMAIN table :
                    ~table[i].deleted /\ table[i].participants = P}
    IN  IF Cardinality(P) < 2
        THEN [status |-> "ValidationError", conv |-> 0, table |-> table]
        ELSE IF found # {}
        THEN [status |-> "ok", conv |-> First(found), table |-> table]
        ELSE [status |-> "ok", conv |-> Len(table) + 1,
              table |-> Append(table, NewConversation(P))]

----------------------------------------------------------------------------
(* Requests and responses of ConversationViewSet.create *)

IdleReq ==
    [pc |-> "idle", user |-> "none", data |-> <<>>, found |-> {},
     status |-> "none", missing |-> {}, conv |-> 0, created |-> FALSE]

\* the request of slot s ends with a response
Reply(s, st, data, missing, conv, created) ==
    req' = [req EXCEPT ![s] =
              [pc |-> "done", user |-> req[s].user, data |-> data,
               found |-> {}, status |-> st, missing |-> missing,
               conv |-> conv, created |-> created]]

\* permission_classes = [IsAuthenticated]: the request of an active user is
\* admitted; request.user is fixed from here on
Authenticate(s, u) ==
    /\ req[s].pc \in {"idle", "done"}
    /\ u \notin deleted
    /\ req' = [req EXCEPT ![s] = [IdleReq EXCEPT !.pc = "authed", !.user = u]]
    /\ UNCHANGED <<deleted, convs, msgs, mresp, view, names>>

\* ConversationViewSet.create, lines 47-67: shape check, resolution of the
\* emails (one query, evaluated by len(participants)), 404 on missing emails
CreateResolve(s, participant_emails) ==
    /\ req[s].pc = "authed"
    /\ LET user == req[s].user
           all_emails == AllEmails(participant_emails, user)
           participants == ActiveByEmails(all_emails, deleted)
       IN  IF Len(participant_emails) < 1
           THEN Reply(s, "HTTP_400_BAD_REQUEST", participant_emails, {}, 0, FALSE)
           ELSE IF Cardinality(participants) # Cardinality(all_emails)
           THEN Reply(s, "HTTP_404_NOT_FOUND", participant_emails,
                      MissingEmails(all_emails, participants), 0, FALSE)
           ELSE req' = [req EXCEPT ![s] =
                          [IdleReq EXCEPT !.pc = "resolved", !.user = user,
                                          !.data = participant_emails,
                                          !.found = participants]]
    /\ UNCHANGED <<deleted, convs, msgs, mresp, view, names>>

\* mutant: the view inserts a conversation row instead of get-or-create
CreateConversationAlways(s) ==
    /\ req[s].pc = "resolved"
    /\ Len(convs) < MaxConvs
    /\ convs' = Append(convs, NewConversation(req[s].found))
    /\ Reply(s, "HTTP_201_CREATED", req[s].data, {}, Len(convs) + 1, TRUE)
    /\ UNCHANGED <<deleted, msgs, mresp, view, names>>

\* ConversationViewSet.create, lines 69-72: get_or_create_conversation over
\* [p.user_id for p in participants], then the 201 response
CreateConversation(s) ==
    /\ req[s].pc = "resolved"
    /\ \E ids \in Orderings(req[s].found) :
         LET r == GetOrCreate(ids, convs)
         IN  /\ Len(r.table) <= MaxConvs
             /\ convs' = r.table
             /\ IF r.status = "ok"
                THEN Reply(s, "HTTP_201_CREATED", req[s].data, {}, r.conv,
                           r.table # convs)
                ELSE Reply(s, r.status, req[s].data, {}, 0, FALSE)
    /\ UNCHANGED <<deleted, msgs, mresp, view, names>>

\* soft deletion of a user: deleted_at is set, the row stays
SoftDeleteUser(u) ==
    /\ u \notin deleted
    /\ deleted' = deleted \cup {u}
    /\ UNCHANGED <<convs, req, msgs, mresp, view, names>>

\* soft deletion of a conversation
SoftDeleteConversation(i) ==
    /\ i \in DOMAIN convs
    /\ ~convs[i].deleted
    /\ convs' = [convs EXCEPT ![i].deleted = TRUE]
    /\ UNCHANGED <<deleted, req, msgs, mresp, view, names>>

----------------------------------------------------------------------------
(* Message bodies: MessageSerializer.validate_message_body *)

\* a body is a string of tokens: text, whitespace, a tag of the allow list
\* (p, b, i, strong, em) and a tag outside of it (script, br, div, ...)
Tokens == {"x", " ", "<b>", "<script>"}

AllowedTags == {"<b>"}

IsTag(t) == t \in {"<b>", "<script>"}

Bodies == SeqsUpTo(Tokens, MaxBody)

RECURSIVE LStrip(_)
LStrip(s) == IF s # <<>> /\ Head(s) = " " THEN LStrip(Tail(s)) ELSE s

RECURSIVE RStrip(_)
RStrip(s) ==
    IF s # <<>> /\ s[Len(s)] = " " THEN RStrip(SubSeq(s, 1, Len(s) - 1)) ELSE s

\* str.strip(): leading and trailing whitespace removed
Strip(s) == RStrip(LStrip(s))

KeepToken(t) == ~IsTag(t) \/ t \in AllowedTags

\* bleach.clean(value, tags=['p','b','i','strong','em'], strip=True): tags
\* outside the allow list are removed, everything else is kept
Clean(value) == SelectSeq(value, KeepToken)

\* validate_message_body: the check is made on the raw value, the cleaned
\* value is what is stored
ValidateMessageBody(value) ==
    IF value = <<>> \/ Strip(value) = <<>>
    THEN [ok |-> FALSE, value |-> <<>>]
    ELSE [ok |-> TRUE, value |-> Clean(value)]

----------------------------------------------------------------------------
(* MessageViewSet *)

NoMessageResponse ==
    [status |-> "none", detail |-> "none", conv |-> 0, user |-> "none",
     body |-> <<>>]

NoView ==
    [kind |-> "none", conv |-> 0, user |-> "none", limit |-> 0,
     ordering |-> "none", items |-> <<>>, deleted_sender |-> FALSE]

\* a rendered listing; deleted_sender records whether it shows a message
\* whose sender was soft-deleted when it was rendered
Rendered(kind, pk, u, limit, ordering, items) ==
    [kind |-> kind, conv |-> pk, user |-> u, limit |-> limit,
     ordering |-> ordering, items |-> items,
     deleted_sender |-> \E k \in DOMAIN items : msgs[items[k]].sender \in deleted]

\* Conversation.objects.get(conversation_id=pk, deleted_at__isnull=True)
ConversationExists(pk) == pk \in DOMAIN convs /\ ~convs[pk].deleted

\* MessageViewSet create: the serializer validates the payload, then
\* perform_create (lines 112-129) looks the conversation up, checks that
\* request.user takes part in it and saves the message.  sent_at is assigned
\* by the store, strictly increasing.
AppendMessage(u, pk, raw_body) ==
    /\ u \notin deleted
    /\ LET v == ValidateMessageBody(raw_body)
           failed(detail) ==
               /\ mresp' = [status |-> "ValidationError", detail |-> detail,
                            conv |-> pk, user |-> u, body |-> raw_body]
               /\ msgs' = msgs
       IN  IF ~v.ok
           THEN failed("Message body cannot be empty.")
           ELSE IF ~ConversationExists(pk)
           THEN failed("Conversation does not exist or is deleted.")
           ELSE IF u \notin convs[pk].participants
           THEN failed("You are not a participant of this conversation.")
           ELSE /\ Len(msgs) < MaxMsgs
                /\ msgs' = Append(msgs,
                             [conversation |-> pk, sender |-> u,
                              message_body |-> v.value,
                              sent_at |-> Len(msgs) + 1, deleted |-> FALSE])
                /\ mresp' = [status |-> "HTTP_201_CREATED", detail |-> "none",
                             conv |-> pk, user |-> u, body |-> raw_body]
    /\ UNCHANGED <<deleted, convs, req, view, names>>

\* soft deletion of a message
SoftDeleteMessage(i) ==
    /\ i \in DOMAIN msgs
    /\ ~msgs[i].deleted
    /\ msgs' = [msgs EXCEPT ![i].deleted = TRUE]
    /\ UNCHANGED <<deleted, convs, req, mresp, view, names>>

\* the identifiers in S by sent_at, ascending
RECURSIVE Ascending(_)
Ascending(S) ==
    IF S = {} THEN <<>>
    ELSE LET m == CHOOSE i \in S : \A j \in S : msgs[i].sent_at <= msgs[j].sent_at
         IN  <<m>> \o Ascending(S \ {m})

Reverse(s) == [i \in 1..Len(s) |-> s[Len(s) + 1 - i]]

\* order_by('-sent_at')
Descending(S) == Reverse(Ascending(S))

\* queryset[:limit]
Slice(s, limit) == SubSeq(s, 1, IF limit < Len(s) THEN limit ELSE Len(s))

\* int(request.query_params.get('message_limit', 50))
DefaultLimit == 50

Limits == (0..MaxMsgs) \cup {DefaultLimit}

\* obj.messages of ConversationSerializer: every Message row of the
\* conversation (the related manager applies no deleted_at filter)
ConversationMessages(pk) == {i \in DOMAIN msgs : msgs[i].conversation = pk}

\* ConversationSerializer.get_messages, lines 121-126, rendered for a
\* conversation of ConversationViewSet.get_queryset (lines 34-37)
GetMessages(u, pk, limit) ==
    /\ u \notin deleted
    /\ ConversationExists(pk)
    /\ u \in convs[pk].participants
    /\ view' = Rendered("get_messages", pk, u, limit, "-sent_at",
                         Slice(Descending(ConversationMessages(pk)), limit))
    /\ UNCHANGED <<deleted, convs, req, msgs, mresp, names>>

\* mutant: messages of soft-deleted senders are filtered out
MessageQuerysetActiveSenders(u, pk) ==
    {i \in DOMAIN msgs :
        /\ msgs[i].conversation = pk
        /\ ConversationExists(pk)
        /\ u \in convs[pk].participants
        /\ ~msgs[i].deleted
        /\ msgs[i].sender \notin deleted}

\* MessageViewSet.get_queryset, lines 102-110
MessageQueryset(u, pk) ==
    {i \in DOMAIN msgs :
        /\ msgs[i].conversation = pk
        /\ ConversationExists(pk)
        /\ u \in convs[pk].participants
        /\ ~msgs[i].deleted}

\* the ?ordering= parameter of a list request: absent, or one of
\* ordering_fields = ['sent_at'] in either direction (line 93)
OrderingParams == {"default", "sent_at", "-sent_at"}

\* ordering = ['sent_at'] (line 94) applies when the parameter is absent
EffectiveOrdering(param) ==
    IF param = "default" THEN "sent_at" ELSE param

\* MessageViewSet.list, lines 133-143: filter_queryset(get_queryset())
ListMessages(u, pk, param) ==
    /\ u \notin deleted
    /\ view' = Rendered("list", pk, u, 0, param,
                         IF EffectiveOrdering(param) = "sent_at"
                         THEN Ascending(MessageQueryset(u, pk))
                         ELSE Descending(MessageQueryset(u, pk)))
    /\ UNCHANGED <<deleted, convs, req, msgs, mresp, names>>

----------------------------------------------------------------------------
(* UserSerializer: cached display names *)

\* the users whose profile is read and updated
ProfileUsers == {"ua"}

Names == {<<>>, <<"x">>, <<"y">>}

NameFields == {"first_name", "last_name"}

\* f"{obj.first_name} {obj.last_name}".strip()
FullName(obj) == Strip(obj.first_name \o <<" ">> \o obj.last_name)

NoEntry == [present |-> FALSE, value |-> <<>>, ver |-> 0]

IdleUpdate ==
    [pc |-> "idle", user |-> "none",
     instance |-> [first_name |-> <<>>, last_name |-> <<>>, ver |-> 0]]

IdleRead ==
    [pc |-> "idle", user |-> "none",
     obj |-> [first_name |-> <<>>, last_name |-> <<>>, ver |-> 0],
     value |-> <<>>, from_ver |-> 0, start_ver |-> 0]

\* rows[u].ver counts the saves of the row; rows[u].done is the last save
\* whose update call has returned
InitNames ==
    /\ rows = [u \in ProfileUsers |->
                 [first_name |-> <<"x">>, last_name |-> <<"y">>,
                  ver |-> 0, done |-> 0]]
    /\ cache = [u \in ProfileUsers |-> NoEntry]
    /\ upd = IdleUpdate
    /\ rd = IdleRead

\* the view loads the instance and the serializer applies validated_data to
\* it: for attr, value in validated_data.items(): setattr(instance, attr, value)
UpdateLoad(u, attr, value) ==
    /\ upd.pc = "idle"
    /\ upd' = [pc |-> "loaded", user |-> u,
               instance |-> [[first_name |-> rows[u].first_name,
                              last_name |-> rows[u].last_name,
                              ver |-> rows[u].ver] EXCEPT ![attr] = value]]
    /\ UNCHANGED <<rows, cache, rd, rt, tx, chat>>

\* instance.save() (line 56)
UpdateSave ==
    /\ upd.pc = "loaded"
    /\ rows[upd.user].ver < MaxUpdates
    /\ rows' = [rows EXCEPT ![upd.user] =
                  [first_name |-> upd.instance.first_name,
                   last_name |-> upd.instance.last_name,
                   ver |-> rows[upd.user].ver + 1,
                   done |-> rows[upd.user].done]]
    /\ upd' = [upd EXCEPT !.pc = "saved",
                          !.instance.ver = rows[upd.user].ver + 1]
    /\ UNCHANGED <<cache, rd, rt, tx, chat>>

\* cache.delete(f'user_full_name_{instance.user_id}') (line 58); update returns
UpdateInvalidate ==
    /\ upd.pc = "saved"
    /\ cache' = [cache EXCEPT ![upd.user] = NoEntry]
    /\ rows' = [rows EXCEPT ![upd.user].done = upd.instance.ver]
    /\ upd' = IdleUpdate
    /\ UNCHANGED <<rd, rt, tx, chat>>

\* a view loads the user (or the sender of a message) it is about to render
ReadLoad(u) ==
    /\ rd.pc \in {"idle", "done"}
    /\ rd' = [pc |-> "loaded", user |-> u,
              obj |-> [first_name |-> rows[u].first_name,
                       last_name |-> rows[u].last_name,
                       ver |-> rows[u].ver],
              value |-> <<>>, from_ver |-> 0, start_ver |-> rows[u].done]
    /\ UNCHANGED <<rows, cache, upd, rt, tx, chat>>

\* get_full_name, lines 27-30 (get_sender_name, lines 84-87): cache.get; an
\* absent or empty entry is a miss and the name is computed from obj
ReadCacheGet ==
    /\ rd.pc = "loaded"
    /\ LET entry == cache[rd.user]
       IN  IF entry.present /\ entry.value # <<>>
           THEN rd' = [rd EXCEPT !.pc = "done", !.value = entry.value,
                                 !.from_ver = entry.ver]
           ELSE rd' = [rd EXCEPT !.pc = "missed", !.value = FullName(rd.obj),
                                 !.from_ver = rd.obj.ver]
    /\ UNCHANGED <<rows, cache, upd, rt, tx, chat>>

\* get_full_name, lines 31-32: cache.set(cache_key, full_name, timeout=3600)
ReadCacheSet ==
    /\ rd.pc = "missed"
    /\ cache' = [cache EXCEPT ![rd.user] =
                   [present |-> TRUE, value |-> rd.value, ver |-> rd.from_ver]]
    /\ rd' = [rd EXCEPT !.pc = "done"]
    /\ UNCHANGED <<rows, upd, rt, tx, chat>>

\* the entry expires after its timeout
CacheExpire(u) ==
    /\ cache[u].present
    /\ cache' = [cache EXCEPT ![u] = NoEntry]
    /\ UNCHANGED <<rows, upd, rd, rt, tx, chat>>

----------------------------------------------------------------------------
(* retry_on_failure (python-decorators-0x01/3-retry_on_failure.py) *)

None == [kind |-> "None", name |-> "None"]

\* what one call of the wrapped function may do: return a value, raise an
\* Exception, or raise a BaseException that is no Exception
Outcomes ==
    [kind : {"return"}, name : {"rows", "no rows"}]
      \cup [kind : {"Exception"}, name : {"OperationalError", "ValueError"}]
      \cup [kind : {"BaseException"}, name : {"KeyboardInterrupt"}]

\* the delay arguments: the default (line 19) and the one in use (line 39)
Delays == {1, 2}

IdleRetry ==
    [pc |-> "idle", retries |-> 0, delay |-> 0, attempt |-> 0,
     any_exception |-> None, log |-> <<>>, result |-> None, slept |-> 0]

\* mutant: the first exception is kept
RememberFirst(any_exception, e) ==
    IF any_exception = None THEN e ELSE any_exception

\* except Exception as e: any_exception = e (lines 28-29)
Remember(any_exception, e) == e

\* raise any_exception (line 33): raising None is a TypeError
Raise(any_exception) ==
    IF any_exception = None
    THEN [kind |-> "Exception", name |-> "TypeError"]
    ELSE any_exception

\* wrapper is called: any_exception = None, the loop starts (lines 23-24)
RetryCall(retries, delay) ==
    /\ rt.pc \in {"idle", "done"}
    /\ rt' = [IdleRetry EXCEPT !.pc = "loop", !.retries = retries,
                               !.delay = delay]
    /\ UNCHANGED <<rows, cache, upd, rd, tx, chat>>

\* one pass of for attempt in range(0, retries) (lines 24-31): the function
\* is called; its value is returned, its Exception is kept and the loop
\* sleeps and goes on, any other exception leaves the wrapper
RetryAttempt(o) ==
    /\ rt.pc = "loop"
    /\ rt.attempt < rt.retries
    /\ rt' = CASE o.kind = "return" ->
                    [rt EXCEPT !.pc = "done", !.log = Append(@, o),
                               !.result = o]
               [] o.kind = "Exception" ->
                    [rt EXCEPT !.log = Append(@, o),
                               !.any_exception = Remember(@, o),
                               !.slept = @ + rt.delay,
                               !.attempt = @ + 1]
               [] o.kind = "BaseException" ->
                    [rt EXCEPT !.pc = "done", !.log = Append(@, o),
                               !.result = o]
    /\ UNCHANGED <<rows, cache, upd, rd, tx, chat>>

\* the loop is over: raise any_exception (lines 32-33)
RetryExhausted ==
    /\ rt.pc = "loop"
    /\ rt.attempt >= rt.retries
    /\ rt' = [rt EXCEPT !.pc = "done", !.result = Raise(rt.any_exception)]
    /\ UNCHANGED <<rows, cache, upd, rd, tx, chat>>

----------------------------------------------------------------------------
(* with_db_connection and transactional                                     *)
(* (python-decorators-0x01/2-transactional.py)                              *)

\* the email arguments of update_user_email, and the one the row starts with
NewEmails == {"a@x.com", "b@x.com"}
StoredEmail == "old@x.com"

\* what a call of sqlite3.connect, conn.commit or conn.rollback may do
DbCalls == {"ok", "raise"}
DbError == [kind |-> "Exception", name |-> "DatabaseError"]

IdleTx ==
    [pc |-> "idle", conn |-> "none", email |-> StoredEmail,
     new_email |-> "none", pending |-> "none", outcome |-> None,
     exc |-> None, log |-> <<>>, raised |-> {}, result |-> None]

\* with_db_connection.wrapper is called: sqlite3.connect('users.db')
\* (lines 9-10); when it raises nothing else runs
TxCall(new_email, c) ==
    /\ tx.pc \in {"idle", "done"}
    /\ tx' = IF c = "ok"
             THEN [IdleTx EXCEPT !.pc = "func", !.conn = "open",
                                 !.email = tx.email, !.new_email = new_email]
             ELSE [IdleTx EXCEPT !.pc = "done", !.email = tx.email,
                                 !.new_email = new_email, !.result = DbError]
    /\ UNCHANGED <<rows, cache, upd, rd, rt, chat>>

\* transactional.wrapper calls func(conn, ...) (lines 24-25, 28): the function
\* has or has not executed its UPDATE (line 37) when it returns or raises; a
\* return goes on to commit, an Exception to the except clause, any other
\* exception passes both except clauses and reaches the finally of line 16
TxFunc(o, wrote) ==
    /\ tx.pc = "func"
    /\ tx' = [tx EXCEPT
                !.outcome = o,
                !.pending = IF wrote THEN tx.new_email ELSE "none",
                !.exc = IF o.kind = "return" THEN None ELSE o,
                !.pc = CASE o.kind = "return" -> "commit"
                         [] o.kind = "Exception" -> "rollback"
                         [] o.kind = "BaseException" -> "close"]
    /\ UNCHANGED <<rows, cache, upd, rd, rt, chat>>

\* mutant: conn.commit() after the try block, its exception is not handled
TxCommitOutsideTry(c) ==
    /\ tx.pc = "commit"
    /\ tx' = IF c = "ok"
             THEN [tx EXCEPT !.log = Append(@, "commit"),
                             !.email = IF tx.pending = "none" THEN @
                                       ELSE tx.pending,
                             !.pending = "none",
                             !.pc = "close"]
             ELSE [tx EXCEPT !.log = Append(@, "commit"),
                             !.raised = @ \cup {"commit"},
                             !.exc = DbError,
                             !.pc = "close"]
    /\ UNCHANGED <<rows, cache, upd, rd, rt, chat>>

\* conn.commit() inside the try block (lines 26-28): pending changes are
\* stored; when commit raises, the except clause of line 28 takes over
TxCommit(c) ==
    /\ tx.pc = "commit"
    /\ tx' = IF c = "ok"
             THEN [tx EXCEPT !.log = Append(@, "commit"),
                             !.email = IF tx.pending = "none" THEN @
                                       ELSE tx.pending,
                             !.pending = "none",
                             !.pc = "close"]
             ELSE [tx EXCEPT !.log = Append(@, "commit"),
                             !.raised = @ \cup {"commit"},
                             !.exc = DbError,
                             !.pc = "rollback"]
    /\ UNCHANGED <<rows, cache, upd, rd, rt, chat>>

\* conn.rollback(); raise e (lines 29-30, then 14-15): pending changes are
\* dropped and the exception goes on; when rollback raises, its exception
\* goes on instead
TxRollback(c) ==
    /\ tx.pc = "rollback"
    /\ tx' = IF c = "ok"
             THEN [tx EXCEPT !.log = Append(@, "rollback"),
                             !.pending = "none",
                             !.pc = "close"]
             ELSE [tx EXCEPT !.log = Append(@, "rollback"),
                             !.raised = @ \cup {"rollback"},
                             !.exc = DbError,
                             !.pc = "close"]
    /\ UNCHANGED <<rows, cache, upd, rd, rt, chat>>

\* finally: connection.close() (lines 13, 16-17): changes still pending are
\* lost, then the result is returned or the exception leaves the wrapper
TxClose ==
    /\ tx.pc = "close"
    /\ tx' = [tx EXCEPT !.log = Append(@, "close"),
                        !.conn = "closed",
                        !.pending = "none",
                        !.result = IF tx.exc = None THEN tx.outcome
                                   ELSE tx.exc,
                        !.pc = "done"]
    /\ UNCHANGED <<rows, cache, upd, rd, rt, chat>>

----------------------------------------------------------------------------
(* Specifications *)

Init ==
    /\ deleted = {}
    /\ convs = <<>>
    /\ req = [s \in Slots |-> IdleReq]
    /\ msgs = <<>>
    /\ mresp = NoMessageResponse
    /\ view = NoView
    /\ InitNames
    /\ rt = IdleRetry
    /\ tx = IdleTx

\* Spec: one request after the other (r1, then r2), users may be soft-deleted
\* at any time
Next ==
    \/ \E u \in Users :
         /\ req["r1"].pc = "idle"
         /\ Authenticate("r1", u)
    \/ \E u \in Users :
         /\ req["r1"].pc = "done"
         /\ req["r2"].pc = "idle"
         /\ Authenticate("r2", u)
    \/ \E s \in Slots, l \in ParticipantLists : CreateResolve(s, l)
    \/ \E s \in Slots : CreateConversation(s)
    \/ \E u \in Users : SoftDeleteUser(u)

Spec == Init /\ [][Next]_vars

\* SpecRace: requests of the two slots interleave freely, again and again;
\* users and conversations may be soft-deleted at any time
NextRace ==
    \/ \E s \in Slots, u \in Users : Authenticate(s, u)
    \/ \E s \in Slots, l \in ShortLists : CreateResolve(s, l)
    \/ \E s \in Slots : CreateConversation(s)
    \/ \E u \in Users : SoftDeleteUser(u)
    \/ \E i \in 1..MaxConvs : SoftDeleteConversation(i)

SpecRace == Init /\ [][NextRace]_vars

\* a conversation of ua and ub exists; uc takes part in none
InitMsg ==
    /\ deleted = {}
    /\ convs = <<NewConversation({"ua", "ub"})>>
    /\ req = [s \in Slots |-> IdleReq]
    /\ msgs = <<>>
    /\ mresp = NoMessageResponse
    /\ view = NoView
    /\ InitNames
    /\ rt = IdleRetry
    /\ tx = IdleTx

\* SpecAppend: a participant (ua) and an outsider (uc) post messages to the
\* conversation, to a conversation that does not exist, and to the
\* conversation once it is soft-deleted
NextAppend ==
    \/ \E u \in {"ua", "uc"}, pk \in 1..MaxConvs, b \in Bodies :
         AppendMessage(u, pk, b)
    \/ \E i \in 1..MaxConvs : SoftDeleteConversation(i)

SpecAppend == InitMsg /\ [][NextAppend]_vars

\* SpecView: messages are posted, soft-deleted and rendered
NextView ==
    \/ \E u \in Users, pk \in 1..MaxConvs : AppendMessage(u, pk, <<"x">>)
    \/ \E i \in 1..MaxMsgs : SoftDeleteMessage(i)
    \/ \E u \in Users, pk \in 1..MaxConvs, l \in Limits : GetMessages(u, pk, l)
    \/ \E u \in Users, pk \in 1..MaxConvs, o \in OrderingParams :
         ListMessages(u, pk, o)

SpecView == InitMsg /\ [][NextView]_vars

\* SpecSoftDelete: users are soft-deleted while ua (and uc, an outsider)
\* posts to the conversation of ua and ub, while messages are soft-deleted
\* and listed by any user, and while conversation creation resolves emails
NextSoftDelete ==
    \/ \E u \in Users : SoftDeleteUser(u)
    \/ \E u \in {"ua", "uc"} : AppendMessage(u, 1, <<"x">>)
    \/ \E i \in 1..MaxMsgs : SoftDeleteMessage(i)
    \/ \E u \in Users : ListMessages(u, 1, "default")
    \/ \E u \in Users : Authenticate("r1", u)
    \/ \E l \in ShortLists : CreateResolve("r1", l)
    \/ CreateConversation("r1")

SpecSoftDelete == InitMsg /\ [][NextSoftDelete]_vars

\* SpecCache: a profile update runs while display names are read
NextCache ==
    \/ \E u \in ProfileUsers, a \in NameFields, n \in Names : UpdateLoad(u, a, n)
    \/ UpdateSave
    \/ UpdateInvalidate
    \/ \E u \in ProfileUsers : ReadLoad(u)
    \/ ReadCacheGet
    \/ ReadCacheSet
    \/ \E u \in ProfileUsers : CacheExpire(u)

SpecCache == Init /\ [][NextCache]_vars

\* SpecRetry: calls of a function wrapped by retry_on_failure(retries, delay)
NextRetry ==
    \/ \E n \in 0..MaxRetries, d \in Delays : RetryCall(n, d)
    \/ \E o \in Outcomes : RetryAttempt(o)
    \/ RetryExhausted

SpecRetry == Init /\ [][NextRetry]_vars

\* SpecTx: calls of a function wrapped by with_db_connection and transactional
NextTx ==
    \/ \E e \in NewEmails, c \in DbCalls : TxCall(e, c)
    \/ \E o \in Outcomes, wrote \in BOOLEAN : TxFunc(o, wrote)
    \/ \E c \in DbCalls : TxCommit(c)
    \/ \E c \in DbCalls : TxRollback(c)
    \/ TxClose

SpecTx == Init /\ [][NextTx]_vars

----------------------------------------------------------------------------
(* Claims about conversation creation *)

\* the step of slot s that runs lines 47-67 of ConversationViewSet.create
ResolveStep(s) == req[s].pc = "authed" /\ req'[s].pc # "authed"

\* the step of slot s that runs lines 69-72 of ConversationViewSet.create
GetOrCreateStep(s) == req[s].pc = "resolved" /\ req'[s].pc = "done"

\* the emails of the request that slot s resolves in this step
RequestEmails(s) == Range(req'[s].data) \cup {EmailOf[req[s].user]}

\* those of them that match no active user when the step is taken
Unresolved(s) ==
    {e \in RequestEmails(s) : ~\E u \in Users \ deleted : EmailOf[u] = e}

\* the active users the emails of the request match when the step is taken
Resolved(s) == {u \in Users \ deleted : EmailOf[u] \in RequestEmails(s)}

ValidationFailures == {"HTTP_400_BAD_REQUEST", "ValidationError"}

C2_SetEqualRequestsSameConversation ==
    (/\ req["r1"].pc = "done" /\ req["r2"].pc = "done"
     /\ req["r1"].status = "HTTP_201_CREATED"
     /\ Range(req["r1"].data) \cup {EmailOf[req["r1"].user]}
          = Range(req["r2"].data) \cup {EmailOf[req["r2"].user]}
     /\ convs[req["r1"].conv].participants \cap deleted = {})
    => /\ req["r2"].status = "HTTP_201_CREATED"
       /\ req["r2"].conv = req["r1"].conv
       /\ ~req["r2"].created

\* C2 witness: the same user sent two different lists over the same set of
\* emails, the second one with a repeated entry, and got one conversation.
C2_Witness ==
    /\ req["r1"].pc = "done" /\ req["r2"].pc = "done"
    /\ req["r1"].status = "HTTP_201_CREATED" /\ req["r1"].created
    /\ req["r2"].status = "HTTP_201_CREATED" /\ ~req["r2"].created
    /\ req["r1"].user = req["r2"].user
    /\ req["r1"].data # req["r2"].data
    /\ Range(req["r1"].data) = Range(req["r2"].data)
    /\ Len(req["r2"].data) > Cardinality(Range(req["r2"].data))
    /\ req["r1"].conv = req["r2"].conv

C4_Original ==
    [][\A s \in Slots :
        (ResolveStep(s) /\ Unresolved(s) # {}) =>
            /\ req'[s].pc = "done"
            /\ req'[s].status = "HTTP_404_NOT_FOUND"
            /\ req'[s].missing = Unresolved(s)
            /\ convs' = convs]_vars

\* C4 amended: a request with a non-empty participant list and an email that
\* matches no active user fails with NotFound naming exactly those emails;
\* get-or-create is not reached and the conversations are unchanged.
C4_MissingEmailsNotFound ==
    [][\A s \in Slots :
        (ResolveStep(s) /\ Len(req'[s].data) >= 1 /\ Unresolved(s) # {}) =>
            /\ req'[s].pc = "done"
            /\ req'[s].status = "HTTP_404_NOT_FOUND"
            /\ req'[s].missing = Unresolved(s)
            /\ req'[s].conv = 0
            /\ convs' = convs]_vars

\* C4 witness: a 404 response names an unknown email and the email of a
\* soft-deleted user, and not the email of the requester.
C4_Witness ==
    \E s \in Slots :
        /\ req[s].pc = "done"
        /\ req[s].status = "HTTP_404_NOT_FOUND"
        /\ UnknownEmail \in req[s].missing
        /\ \E u \in deleted : EmailOf[u] \in req[s].missing
        /\ EmailOf[req[s].user] \notin req[s].missing

----------------------------------------------------------------------------
(* Claims about messages *)

\* a step in which a MessageViewSet create request is answered
AppendStep == mresp' # mresp \/ Len(msgs') > Len(msgs)

\* a step in which a listing is rendered
RenderStep == view' # view

\* the non-deleted messages of conversation pk
LiveMessages(pk) ==
    {i \in DOMAIN msgs : msgs[i].conversation = pk /\ ~msgs[i].deleted}

\* C5 as claimed: a message (with a body that is not blank) posted to an
\* existing, non-deleted conversation by a sender who takes no part in it
\* fails with PermissionDenied, and the message log is unchanged.
C5_Original ==
    [][(/\ AppendStep
        /\ Strip(mresp'.body) # <<>>
        /\ ConversationExists(mresp'.conv)
        /\ mresp'.user \notin convs[mresp'.conv].participants)
       => /\ mresp'.status = "PermissionDenied"
          /\ msgs' = msgs]_vars

\* C6 as claimed: a message whose body is empty or whitespace only fails
\* with ValidationError and is not persisted, and every persisted message
\* has a body that is non-empty after trimming.
C6_Original ==
    [][/\ (AppendStep /\ Strip(mresp'.body) = <<>>)
            => (mresp'.status = "ValidationError" /\ msgs' = msgs)
       /\ \A i \in DOMAIN msgs' : Strip(msgs'[i].message_body) # <<>>]_vars

\* C7 as claimed: a rendered message view (the messages of a conversation
\* with limit L, the message list with its default ordering) is the first L
\* non-deleted messages of the conversation, newest first.
C7_Original ==
    [][/\ (RenderStep /\ view'.kind = "get_messages")
            => view'.items =
                 Slice(Descending(LiveMessages(view'.conv)), view'.limit)
       /\ (/\ RenderStep
           /\ view'.kind = "list"
           /\ view'.ordering = "default"
           /\ ConversationExists(view'.conv)
           /\ view'.user \in convs[view'.conv].participants)
            => view'.items = Descending(LiveMessages(view'.conv))]_vars

\* C9: once a user is soft-deleted, a resolution of emails never yields that
\* user, and a creation request that names the user fails with 404 listing
\* the user's email; a message listing of a conversation still shows every
\* message that is not soft-deleted itself, those of soft-deleted senders
\* included.
C9_SoftDeletedUser ==
    [][/\ \A s \in Slots : \A u \in deleted :
            ResolveStep(s) =>
              /\ u \notin req'[s].found
              /\ EmailOf[u] \in Range(req'[s].data) =>
                    /\ req'[s].pc = "done"
                    /\ req'[s].status = "HTTP_404_NOT_FOUND"
                    /\ EmailOf[u] \in req'[s].missing
       /\ (/\ RenderStep
           /\ view'.kind = "list"
           /\ ConversationExists(view'.conv)
           /\ view'.user \in convs[view'.conv].participants)
            => \A i \in LiveMessages(view'.conv) :
                  /\ i \in Range(view'.items)
                  /\ msgs[i].sender \in deleted => view'.deleted_sender]_vars

\* C9 witness: a listing rendered after its sender was soft-deleted shows
\* the sender's message, and a creation request naming the sender has been
\* answered 404 with the sender's email.
C9_Witness ==
    /\ view.kind = "list"
    /\ view.deleted_sender
    /\ \E k \in DOMAIN view.items :
          /\ msgs[view.items[k]].sender \in deleted
          /\ req["r1"].pc = "done"
          /\ req["r1"].status = "HTTP_404_NOT_FOUND"
          /\ EmailOf[msgs[view.items[k]].sender] \in Range(req["r1"].data)
          /\ EmailOf[msgs[view.items[k]].sender] \in req["r1"].missing

----------------------------------------------------------------------------
(* Claims about cached display names *)

\* C8 as claimed: once an update of a user has returned, no read of the
\* user's display name that starts afterwards returns a name computed from
\* the row as it was before that update.
C8_Original ==
    rd.pc = "done" => rd.from_ver >= rd.start_ver

----------------------------------------------------------------------------
(* Claims about retry_on_failure *)

Raised(o) == o.kind \in {"Exception", "BaseException"}

\* the function is invoked at most `retries` times, and never again after
\* an attempt that succeeded, whose value is what the call returns
AtMostRetriesThenStop ==
    /\ Len(rt.log) <= rt.retries
    /\ \A k \in DOMAIN rt.log :
          rt.log[k].kind = "return" =>
              /\ k = Len(rt.log)
              /\ rt.pc = "done"
              /\ rt.result = rt.log[k]

\* C10 as claimed: for every retries >= 0 the function is invoked at most
\* `retries` times, no attempt follows one that succeeded, and when every
\* attempt raised the call ends by raising the exception of the last attempt.
C10_Original ==
    /\ AtMostRetriesThenStop
    /\ (rt.pc = "done" /\ \A k \in DOMAIN rt.log : Raised(rt.log[k]))
          => /\ rt.log # <<>>
             /\ rt.result = rt.log[Len(rt.log)]

\* C10 amended: as claimed for every retries >= 1; with retries = 0 the
\* function is never invoked and the call ends by raising a TypeError.
C10_RetryUntilSuccessOrLastException ==
    /\ AtMostRetriesThenStop
    /\ (rt.pc = "done" /\ \A k \in DOMAIN rt.log : Raised(rt.log[k]))
          => IF rt.retries >= 1
             THEN /\ rt.log # <<>>
                  /\ rt.result = rt.log[Len(rt.log)]
             ELSE /\ rt.log = <<>>
                  /\ rt.result = [kind |-> "Exception", name |-> "TypeError"]

\* C10 witness: all of three attempts raised, the first and the last a
\* different exception, and the call raised the last one.
C10_Witness ==
    /\ rt.pc = "done"
    /\ rt.retries = 3
    /\ Len(rt.log) = 3
    /\ \A k \in DOMAIN rt.log : rt.log[k].kind = "Exception"
    /\ rt.log[1] # rt.log[3]
    /\ rt.result = rt.log[3]

----------------------------------------------------------------------------
(* Claims about with_db_connection and transactional *)

\* how often the call named c was made on the connection
Calls(c) == Cardinality({k \in DOMAIN tx.log : tx.log[k] = c})

====
